---- MODULE Spec2Model ----
(***************************************************************************)
(* A model of the simple-crowdfund pallet                                  *)
(* (pallets/simple-crowdfund/src/lib.rs): the fund registry, the fund      *)
(* counter, the per-fund child tries of contributions, the balances the    *)
(* pallet moves through T::Currency, and the event log, driven by the four *)
(* dispatchable calls create, contribute, withdraw and dissolve.           *)
(* Two smaller pallets follow it, each under a specification of its own:   *)
(* the on-chain part of offchain-demo (the Numbers vector) and the adding  *)
(* machine (the Sum value).                                                *)
(***************************************************************************)
EXTENDS Integers, Sequences, FiniteSets, TLC

(***************************************************************************)
(* Bounds of the model.  The integer types keep a (scaled down) width:     *)
(* FundIndex is u32 in the pallet and 0 .. IndexMod-1 here, Balance is     *)
(* 0 .. BalanceMod-1, BlockNumber is 0 .. BlockMod-1.                      *)
(***************************************************************************)
IndexMod == 2
BalanceMod == 8
BlockMod == 5
MaxNow == 3
MaxEvents == 4
NumUsers == 2
InitialBalance == 2
MaxValue == 2

(***************************************************************************)
(* The configuration of the runtime (the associated types of Trait).       *)
(***************************************************************************)
SubmissionDeposit == 1
MinContribution == 1
RetirementPeriod == 1

FundIndex == 0 .. (IndexMod - 1)
Balance == 0 .. (BalanceMod - 1)
BlockNumber == 0 .. (BlockMod - 1)

\* AccountIds are pairs <<kind, n>>: the signed origins, and the sub-accounts
\* of the pallet.
Users == {<<"user", n>> : n \in 1 .. NumUsers}

\* PALLET_ID.into_sub_account(index): one account per index, injective.
fund_account_id(index) == <<"modlex/cfund", index>>

\* The child trie of a fund: hash("crowdfnd" ++ index.to_le_bytes()).
id_from_index(index) == <<"crowdfnd", index>>

Accounts == Users \cup {fund_account_id(i) : i \in FundIndex}
ChildIds == {id_from_index(i) : i \in FundIndex}

\* The inputs of the calls.
Values == 0 .. MaxValue
Caps == {MaxValue}
Windows == {<<1, 2>>, <<2, 2>>, <<1, BlockMod - 1>>}

VARIABLES
    now,            \* <system::Module<T>>::block_number()
    FundCount,      \* storage value FundCount
    Funds,          \* storage map Funds: a function on the indices present
    child,          \* the child tries: child id -> (encoded account -> balance)
    balances,       \* free balance of every account (T::Currency)
    events,         \* the events deposited so far
    last,           \* the call just dispatched in this block, with its result
    Numbers,        \* offchain-demo: storage value Numbers, a Vec<u64>
    Sum,            \* adding-machine: storage value Sum, a u32
    calls           \* adding-machine: the calls dispatched so far (history)

vars == <<now, FundCount, Funds, child, balances, events, last, Numbers, Sum,
          calls>>

\* The storage of the two other pallets, which no crowdfund call touches.
others == <<Numbers, Sum, calls>>

EmptyTrie == [w \in {} |-> 0]

(***************************************************************************)
(* Integer arithmetic of the bounded types.                                *)
(***************************************************************************)
\* `a + b` on Balance where the build has no overflow checks (release).
WrappingAdd(a, b) == (a + b) % BalanceMod
\* Saturating::saturating_add / saturating_sub on Balance.
saturating_add(a, b) == IF a + b > BalanceMod - 1 THEN BalanceMod - 1 ELSE a + b
saturating_sub(a, b) == IF a - b < 0 THEN 0 ELSE a - b

\* The value of `last` when no call has been dispatched in the current block.
NoCall ==
    [op |-> "none", who |-> <<"user", 0>>, index |-> 0, value |-> 0,
     start |-> 0, end |-> 0, result |-> "none"]

Init ==
    /\ now = 0
    /\ FundCount = 0
    /\ Funds = [i \in {} |-> 0]
    /\ child = [c \in ChildIds |-> EmptyTrie]
    /\ balances = [a \in Accounts |-> IF a \in Users THEN InitialBalance ELSE 0]
    /\ events = <<>>
    /\ last = NoCall
    /\ Numbers = <<>>
    /\ Sum = 0
    /\ calls = <<>>

(***************************************************************************)
(* T::Currency, as the pallet uses it.  An account whose free balance is   *)
(* zero does not exist (the smallest existential deposit).  A negative     *)
(* imbalance that is dropped instead of being resolved is burned.          *)
(***************************************************************************)
\* Currency::withdraw(who, value, Transfer, AllowDeath)
Currency_withdraw(bal, who, value) ==
    IF value = 0
    THEN [ok |-> TRUE, err |-> "", balances |-> bal, imbalance |-> 0]
    ELSE IF bal[who] < value
    THEN [ok |-> FALSE, err |-> "InsufficientBalance", balances |-> bal, imbalance |-> 0]
    ELSE [ok |-> TRUE, err |-> "",
          balances |-> [bal EXCEPT ![who] = bal[who] - value], imbalance |-> value]

\* Currency::transfer(source, dest, value, AllowDeath)
Currency_transfer(bal, source, dest, value) ==
    IF value = 0 \/ source = dest
    THEN [ok |-> TRUE, err |-> "", balances |-> bal]
    ELSE IF bal[source] < value
    THEN [ok |-> FALSE, err |-> "InsufficientBalance", balances |-> bal]
    ELSE IF bal[dest] + value > BalanceMod - 1
    THEN [ok |-> FALSE, err |-> "Overflow", balances |-> bal]
    ELSE [ok |-> TRUE, err |-> "",
          balances |-> [bal EXCEPT ![source] = bal[source] - value,
                                   ![dest] = bal[dest] + value]]

\* Currency::resolve_creating(who, imbalance): credits who, creating the
\* account when needed; what cannot be credited is dropped.
Currency_resolve_creating(bal, who, imbalance) ==
    IF imbalance = 0 \/ bal[who] + imbalance > BalanceMod - 1
    THEN bal
    ELSE [bal EXCEPT ![who] = bal[who] + imbalance]

\* Currency::resolve_into_existing(who, imbalance): credits who only when the
\* account exists; the pallet discards the Err(imbalance) with `let _ =`.
Currency_resolve_into_existing(bal, who, imbalance) ==
    IF imbalance = 0 \/ bal[who] = 0 \/ bal[who] + imbalance > BalanceMod - 1
    THEN bal
    ELSE [bal EXCEPT ![who] = bal[who] + imbalance]

(***************************************************************************)
(* The child tries of contributions.                                       *)
(***************************************************************************)
contribution_put(ch, index, who, balance) ==
    LET id == id_from_index(index)
    IN  [ch EXCEPT ![id] = [w \in DOMAIN ch[id] \cup {who} |->
                               IF w = who THEN balance ELSE ch[id][w]]]

contribution_get(ch, index, who) ==
    LET id == id_from_index(index)
    IN  IF who \in DOMAIN ch[id] THEN ch[id][who] ELSE 0

\* A variant of contribution_kill that leaves the entry in the trie.
contribution_kept(ch, index, who) == ch

contribution_kill(ch, index, who) ==
    LET id == id_from_index(index)
    IN  [ch EXCEPT ![id] = [w \in DOMAIN ch[id] \ {who} |-> ch[id][w]]]

crowdfund_kill(ch, index) ==
    LET id == id_from_index(index)
    IN  [ch EXCEPT ![id] = EmptyTrie]

(***************************************************************************)
(* The storage map Funds.                                                  *)
(***************************************************************************)
Funds_insert(F, index, fund) ==
    [j \in DOMAIN F \cup {index} |-> IF j = index THEN fund ELSE F[j]]

Funds_remove(F, index) == [j \in DOMAIN F \ {index} |-> F[j]]

(***************************************************************************)
(* The results of a dispatchable.  The storage s is the record of          *)
(* FundCount, Funds, child, balances and events; a call that returns an    *)
(* error leaves the storage as it was at the point of the error (the       *)
(* dispatch is not transactional).  A panic aborts the extrinsic and       *)
(* none of its writes is applied.                                          *)
(***************************************************************************)
Ok(s) == [s |-> s, result |-> "ok"]
Err(s, e) == [s |-> s, result |-> e]
Panic(s) == [s |-> s, result |-> "panic"]

\* A variant of deposit_event that loses the event.
deposit_event_lost(s, e) == s

deposit_event(s, e) == [s EXCEPT !.events = Append(s.events, e)]

(***************************************************************************)
(* create                                                                  *)
(***************************************************************************)
\* ensure!(start < end, ..)
starts_before_end(start, end) == start < end

\* A variant of ends_in_future that also accepts a fund ending now.
ends_in_future_or_now(end, t) == end >= t

\* ensure!(end > now, ..)
ends_in_future(end, t) == end > t

\* FundCount::put(index + 1): unprotected u32 addition, which wraps in a
\* build without overflow checks and panics in one with them.
next_index(index) == (index + 1) % IndexMod

\* A variant of create that advances FundCount before it withdraws the
\* deposit.
create_counts_first(s, t, owner, cap, start, end, overflow_checks) ==
    IF ~starts_before_end(start, end) THEN Err(s, "must start before it ends")
    ELSE IF ~ends_in_future(end, t) THEN Err(s, "end must be in the future")
    ELSE
    LET deposit == SubmissionDeposit
        index == s.FundCount
    IN  IF overflow_checks /\ index + 1 > IndexMod - 1 THEN Panic(s)
        ELSE
        LET s1 == [s EXCEPT !.FundCount = next_index(index)]
            imb == Currency_withdraw(s1.balances, owner, deposit)
        IN  IF ~imb.ok THEN Err(s1, imb.err)
            ELSE
            LET s2 == [s1 EXCEPT !.balances = Currency_resolve_creating(
                            imb.balances, fund_account_id(index), imb.imbalance)]
                s3 == [s2 EXCEPT !.Funds = Funds_insert(s2.Funds, index,
                            [owner |-> owner, deposit |-> deposit, raised |-> 0,
                             start |-> start, end |-> end, cap |-> cap])]
            IN  Ok(deposit_event(s3, [name |-> "Created", index |-> index, now |-> t]))

create(s, t, owner, cap, start, end, overflow_checks) ==
    IF ~starts_before_end(start, end) THEN Err(s, "must start before it ends")
    ELSE IF ~ends_in_future(end, t) THEN Err(s, "end must be in the future")
    ELSE
    LET deposit == SubmissionDeposit
        imb == Currency_withdraw(s.balances, owner, deposit)
    IN  IF ~imb.ok THEN Err(s, imb.err)
        ELSE
        LET s1 == [s EXCEPT !.balances = imb.balances]
            index == s1.FundCount
        IN  IF overflow_checks /\ index + 1 > IndexMod - 1 THEN Panic(s1)
            ELSE
            LET s2 == [s1 EXCEPT !.FundCount = next_index(index)]
                s3 == [s2 EXCEPT !.balances = Currency_resolve_creating(
                            s2.balances, fund_account_id(index), imb.imbalance)]
                s4 == [s3 EXCEPT !.Funds = Funds_insert(s3.Funds, index,
                            [owner |-> owner, deposit |-> deposit, raised |-> 0,
                             start |-> start, end |-> end, cap |-> cap])]
            IN  Ok(deposit_event(s4, [name |-> "Created", index |-> index, now |-> t]))

(***************************************************************************)
(* contribute                                                              *)
(***************************************************************************)
\* ensure!(value >= T::MinContribution::get(), ..)
large_enough(value) == value >= MinContribution

\* A variant of not_ended that still accepts contributions at block `end`.
not_ended_or_ending(fund, t) == fund.end >= t

\* ensure!(fund.end > now, ..)
not_ended(fund, t) == fund.end > t

\* A variant of below_cap that lets the contributions reach the cap.
up_to_cap(fund, value) == WrappingAdd(fund.raised, value) <= fund.cap

\* ensure!(fund.raised + value < fund.cap, ..)
below_cap(fund, value) == WrappingAdd(fund.raised, value) < fund.cap

\* `fund` is a local copy of the record: `fund.raised += value` changes the
\* copy only, and contribute has no <Funds<T>>::insert, so s.Funds is left as
\* it was.
contribute(s, t, who, index, value, overflow_checks) ==
    IF ~large_enough(value) THEN Err(s, "contribution too small")
    ELSE IF index \notin DOMAIN s.Funds THEN Err(s, "invalid fund index")
    ELSE
    LET fund == s.Funds[index]
    IN  IF ~not_ended(fund, t) THEN Err(s, "contribution period ended")
        ELSE IF overflow_checks /\ fund.raised + value > BalanceMod - 1 THEN Panic(s)
        ELSE IF ~below_cap(fund, value) THEN Err(s, "contributions exceed cap")
        ELSE
        LET tr == Currency_transfer(s.balances, who, fund_account_id(index), value)
        IN  IF ~tr.ok THEN Err(s, tr.err)
            ELSE
            LET s1 == [s EXCEPT !.balances = tr.balances]
                balance == saturating_add(contribution_get(s1.child, index, who), value)
                s2 == [s1 EXCEPT !.child = contribution_put(s1.child, index, who, balance)]
            IN  Ok(deposit_event(s2, [name |-> "Contributed", who |-> who,
                                      index |-> index, balance |-> balance, now |-> t]))

(***************************************************************************)
(* withdraw                                                                *)
(***************************************************************************)
\* ensure!(fund.end < now, ..)
has_ended(fund, t) == fund.end < t

\* A variant of has_contribution that lets an empty entry through.
has_contribution_or_none(balance) == balance >= 0

\* ensure!(balance > Zero::zero(), ..)
has_contribution(balance) == balance > 0

withdraw(s, t, who, index) ==
    IF index \notin DOMAIN s.Funds THEN Err(s, "invalid fund index")
    ELSE
    LET fund == s.Funds[index]
    IN  IF ~has_ended(fund, t) THEN Err(s, "no more withdrawals")
        ELSE
        LET balance == contribution_get(s.child, index, who)
        IN  IF ~has_contribution(balance) THEN Err(s, "no contributions stored")
            ELSE
            LET imb == Currency_withdraw(s.balances, fund_account_id(index), balance)
            IN  IF ~imb.ok THEN Err(s, imb.err)
                ELSE
                LET s1 == [s EXCEPT !.balances = Currency_resolve_into_existing(
                                imb.balances, who, imb.imbalance)]
                    s2 == [s1 EXCEPT !.child = contribution_kill(s1.child, index, who)]
                    fund1 == [fund EXCEPT !.raised = saturating_sub(fund.raised, balance)]
                    s3 == [s2 EXCEPT !.Funds = Funds_insert(s2.Funds, index, fund1)]
                IN  Ok(deposit_event(s3, [name |-> "Withdrew", who |-> who,
                                          index |-> index, balance |-> balance, now |-> t]))

(***************************************************************************)
(* dissolve                                                                *)
(***************************************************************************)
\* fund.end + T::RetirementPeriod::get(): unprotected BlockNumber addition.
retirement_end(fund) == (fund.end + RetirementPeriod) % BlockMod

\* ensure!(now >= fund.end + T::RetirementPeriod::get(), ..)
retirement_over(fund, t) == t >= retirement_end(fund)

\* fund.deposit + fund.raised: what the dissolver collects.
dissolve_reward(fund) == WrappingAdd(fund.deposit, fund.raised)

dissolve(s, t, reporter, index, overflow_checks) ==
    IF index \notin DOMAIN s.Funds THEN Err(s, "invalid fund index")
    ELSE
    LET fund == s.Funds[index]
    IN  IF overflow_checks /\ fund.end + RetirementPeriod > BlockMod - 1 THEN Panic(s)
        ELSE IF ~retirement_over(fund, t) THEN Err(s, "retirement period not over")
        ELSE IF overflow_checks /\ fund.deposit + fund.raised > BalanceMod - 1 THEN Panic(s)
        ELSE
        LET account == fund_account_id(index)
            imb == Currency_withdraw(s.balances, account, dissolve_reward(fund))
        IN  IF ~imb.ok THEN Err(s, imb.err)
            ELSE
            LET s1 == [s EXCEPT !.balances = Currency_resolve_into_existing(
                            imb.balances, reporter, imb.imbalance)]
                s2 == [s1 EXCEPT !.Funds = Funds_remove(s1.Funds, index)]
                s3 == [s2 EXCEPT !.child = crowdfund_kill(s2.child, index)]
            IN  Ok(deposit_event(s3, [name |-> "Dissolved", index |-> index,
                                      now |-> t, reporter |-> reporter]))

(***************************************************************************)
(* The state machine: the runtime dispatches one call at a time, at the    *)
(* current block number, and block numbers only grow.                      *)
(***************************************************************************)
Storage ==
    [FundCount |-> FundCount, Funds |-> Funds, child |-> child,
     balances |-> balances, events |-> events]

\* Applies the outcome of a call; the writes of a panicking extrinsic are
\* discarded.
Apply(call, out) ==
    LET s == IF out.result = "panic" THEN Storage ELSE out.s
    IN  /\ FundCount' = s.FundCount
        /\ Funds' = s.Funds
        /\ child' = s.child
        /\ balances' = s.balances
        /\ events' = s.events
        /\ last' = [call EXCEPT !.result = out.result]
        /\ UNCHANGED <<now, others>>

Call(op, who, index, value, start, end) ==
    [op |-> op, who |-> who, index |-> index, value |-> value,
     start |-> start, end |-> end, result |-> ""]

Create(owner, cap, start, end, overflow_checks) ==
    /\ Len(events) < MaxEvents
    /\ Apply(Call("create", owner, 0, cap, start, end),
             create(Storage, now, owner, cap, start, end, overflow_checks))

Contribute(who, index, value, overflow_checks) ==
    /\ Len(events) < MaxEvents
    /\ Apply(Call("contribute", who, index, value, 0, 0),
             contribute(Storage, now, who, index, value, overflow_checks))

Withdraw(who, index) ==
    /\ Len(events) < MaxEvents
    /\ Apply(Call("withdraw", who, index, 0, 0, 0),
             withdraw(Storage, now, who, index))

Dissolve(reporter, index, overflow_checks) ==
    /\ Len(events) < MaxEvents
    /\ Apply(Call("dissolve", reporter, index, 0, 0, 0),
             dissolve(Storage, now, reporter, index, overflow_checks))

\* The next block.
AdvanceBlock ==
    /\ now < MaxNow
    /\ now' = now + 1
    /\ last' = NoCall
    /\ UNCHANGED <<FundCount, Funds, child, balances, events, others>>

Next ==
    \/ \E owner \in Users, cap \in Caps, w \in Windows, oc \in BOOLEAN :
           Create(owner, cap, w[1], w[2], oc)
    \/ \E who \in Users, index \in FundIndex, value \in Values, oc \in BOOLEAN :
           Contribute(who, index, value, oc)
    \/ \E who \in Users, index \in FundIndex : Withdraw(who, index)
    \/ \E reporter \in Users, index \in FundIndex, oc \in BOOLEAN :
           Dissolve(reporter, index, oc)
    \/ AdvanceBlock

Spec == Init /\ [][Next]_vars

(***************************************************************************)
(* Auxiliary operators of the properties.                                  *)
(***************************************************************************)
RECURSIVE TrieSum(_)
\* The sum of the entries of one child trie.
TrieSum(t) ==
    IF DOMAIN t = {} THEN 0
    ELSE LET w == CHOOSE x \in DOMAIN t : TRUE
         IN  t[w] + TrieSum([x \in DOMAIN t \ {w} |-> t[x]])

\* The contributions recorded for a fund.
Contributed(index) == TrieSum(child[id_from_index(index)])

\* The step is a call of op that returned Ok.
Succeeded(op) == last'.op = op /\ last'.result = "ok"

\* The step is a call that returned an error.
Failed == last'.op # "none" /\ last'.result \notin {"ok", "panic"}

(***************************************************************************)
(* C1: for every fund in the registry, the sum of the contribution entries *)
(* of its child trie equals the `raised` field of its record.              *)
(***************************************************************************)
C1_SumEqualsRaised ==
    \A i \in DOMAIN Funds : Contributed(i) = Funds[i].raised

(***************************************************************************)
(* C2: a successful contribute(who, index, value) persists the record:     *)
(* `raised` grows by value (saturating), and the entry of who grows by     *)
(* value (saturating).                                                     *)
(***************************************************************************)
C2_ContributePersistsRaised ==
    [][Succeeded("contribute") =>
          LET i == last'.index
              v == last'.value
              w == last'.who
          IN  /\ i \in DOMAIN Funds'
              /\ Funds'[i].raised = saturating_add(Funds[i].raised, v)
              /\ contribution_get(child', i, w)
                     = saturating_add(contribution_get(child, i, w), v)]_vars

(***************************************************************************)
(* C3: the cap is a hard ceiling on the total contributed to a fund: a     *)
(* contribute that would bring the total of the contributions to cap or    *)
(* above is rejected, so the total stays strictly below cap.               *)
(***************************************************************************)
C3_TotalBelowCap ==
    [][Succeeded("contribute") =>
          /\ Contributed(last'.index) + last'.value < Funds[last'.index].cap
          /\ \A i \in DOMAIN Funds' :
                 TrieSum(child'[id_from_index(i)]) < Funds'[i].cap]_vars

(***************************************************************************)
(* C4: for every fund in the registry, the balance of its account equals   *)
(* the deposit plus the `raised` of its record.                            *)
(***************************************************************************)
C4_CustodyEqualsDepositPlusRaised ==
    \A i \in DOMAIN Funds :
        balances[fund_account_id(i)] = Funds[i].deposit + Funds[i].raised

(***************************************************************************)
(* C5: a successful dissolve pays the reporter the whole balance of the    *)
(* fund's account: the account is left empty and the reporter's balance    *)
(* grows by what the account held.                                         *)
(***************************************************************************)
C5_DissolvePaysWholeCustody ==
    [][Succeeded("dissolve") =>
          LET account == fund_account_id(last'.index)
              reporter == last'.who
          IN  /\ balances'[account] = 0
              /\ balances'[reporter] = balances[reporter] + balances[account]]_vars

(***************************************************************************)
(* C6: a call of create, contribute, withdraw or dissolve that returns an  *)
(* error leaves the fund counter, the registry, the child tries, the       *)
(* balances and the event log as they were.                                *)
(***************************************************************************)
C6_FailuresArePure ==
    [][Failed => UNCHANGED <<FundCount, Funds, child, balances, events>>]_vars

\* A create has failed on the currency's error, after the window checks.
C6_Witness ==
    /\ last.op = "create"
    /\ last.result = "InsufficientBalance"
    /\ FundCount > 0

(***************************************************************************)
(* C7: create fails whenever start >= end or end <= now, and then changes  *)
(* neither the fund counter nor the registry; it succeeds only if          *)
(* start < end, end > now and the owner can pay SubmissionDeposit.         *)
(***************************************************************************)
C7_CreateChecksWindow ==
    [][last'.op = "create" =>
          /\ (last'.start >= last'.end \/ last'.end <= now) =>
                 /\ last'.result # "ok"
                 /\ UNCHANGED <<FundCount, Funds>>
          /\ last'.result = "ok" =>
                 /\ last'.start < last'.end
                 /\ last'.end > now
                 /\ balances[last'.who] >= SubmissionDeposit]_vars

\* A create with start < end has been rejected because end is the current
\* block.
C7_Witness ==
    /\ last.op = "create"
    /\ last.start < last.end
    /\ last.end = now
    /\ last.result = "end must be in the future"

(***************************************************************************)
(* C8: fund_count() is its initial value (zero) plus the number of         *)
(* successful creates; a successful create advances it by exactly one and  *)
(* stores the fund under its previous value; a failed create leaves it.    *)
(***************************************************************************)
\* The number of Created events in a log: the successful creates.
Creations(log) == Cardinality({k \in 1 .. Len(log) : log[k].name = "Created"})

C8_CountEqualsCreations ==
    [][/\ IF Succeeded("create")
          THEN /\ FundCount' = FundCount + 1
               /\ FundCount \in DOMAIN Funds'
               /\ Funds'[FundCount].owner = last'.who
          ELSE FundCount' = FundCount
       /\ FundCount' = Creations(events')]_vars

(***************************************************************************)
(* C9: the fund counter never decreases or wraps, and a successful create  *)
(* never issues an index that an earlier create has issued.                *)
(***************************************************************************)
\* The indices the creates of a log have issued.
Issued(log) == {log[k].index : k \in {j \in 1 .. Len(log) : log[j].name = "Created"}}

C9_IndicesNeverReused ==
    [][/\ FundCount' >= FundCount
       /\ Succeeded("create") => events'[Len(events')].index \notin Issued(events)]_vars

C11_WithdrawOnlyOnce ==
    [][/\ Succeeded("withdraw") =>
             /\ last'.who \notin DOMAIN child'[id_from_index(last'.index)]
             /\ balances'[last'.who] - balances[last'.who]
                    <= contribution_get(child, last'.index, last'.who)
       /\ \A i \in FundIndex, w \in Users :
             contribution_get(child', i, w) > contribution_get(child, i, w) =>
                 Succeeded("contribute") /\ last'.index = i /\ last'.who = w
       /\ (last'.op = "withdraw"
              /\ contribution_get(child, last'.index, last'.who) = 0) =>
             /\ last'.result # "ok"
             /\ UNCHANGED balances
             /\ (last'.index \in DOMAIN Funds /\ Funds[last'.index].end < now) =>
                    last'.result = "no contributions stored"]_vars

\* A contributor who has withdrawn from a fund withdraws again and is refused.
C11_Witness ==
    /\ last.op = "withdraw"
    /\ last.result = "no contributions stored"
    /\ \E k \in 1 .. Len(events) :
           /\ events[k].name = "Withdrew"
           /\ events[k].who = last.who
           /\ events[k].index = last.index

(***************************************************************************)
(* C12: a successful withdraw moves the recorded balance b of the          *)
(* requester from the fund's account to the requester's account, and       *)
(* lowers the persisted `raised` by b, flooring at zero.                   *)
(***************************************************************************)
C12_WithdrawMovesBalance ==
    [][Succeeded("withdraw") =>
          LET i == last'.index
              w == last'.who
              b == contribution_get(child, i, w)
          IN  /\ balances'[w] = balances[w] + b
              /\ balances'[fund_account_id(i)] = balances[fund_account_id(i)] - b
              /\ Funds'[i].raised = saturating_sub(Funds[i].raised, b)]_vars

(***************************************************************************)
(* C13: a dissolve of a fund in the registry succeeds exactly when the     *)
(* block number is at least end + RetirementPeriod, whoever calls it, and  *)
(* no record leaves the registry before that block.                        *)
(***************************************************************************)
C13_DissolveOnlyAfterRetirement ==
    [][/\ (last'.op = "dissolve" /\ last'.index \in DOMAIN Funds) =>
             (last'.result = "ok"
                  <=> now >= Funds[last'.index].end + RetirementPeriod)
       /\ \A i \in DOMAIN Funds :
             i \notin DOMAIN Funds' => now >= Funds[i].end + RetirementPeriod]_vars

(***************************************************************************)
(* C14: contribute succeeds only at blocks strictly below end, withdraw    *)
(* only at blocks strictly above end, and at block end both fail.          *)
(***************************************************************************)
C14_WindowsAreDisjoint ==
    [][/\ Succeeded("contribute") => now < Funds[last'.index].end
       /\ Succeeded("withdraw") => now > Funds[last'.index].end
       /\ (/\ last'.op \in {"contribute", "withdraw"}
           /\ last'.index \in DOMAIN Funds
           /\ now = Funds[last'.index].end) => last'.result # "ok"]_vars

\* A contribution that passes the other checks is refused at block `end`.
C14_Witness ==
    /\ last.op = "contribute"
    /\ last.result = "contribution period ended"
    /\ last.index \in DOMAIN Funds
    /\ now = Funds[last.index].end

(***************************************************************************)
(* C15: no contribute succeeds at a block strictly below the `start` of    *)
(* the fund.                                                               *)
(***************************************************************************)
C15_NoContributionBeforeStart ==
    [][Succeeded("contribute") => now >= Funds[last'.index].start]_vars

(***************************************************************************)
(* C16: a successful dissolve removes the record and every contribution    *)
(* entry of the fund in one step, and from then on the index stays out of  *)
(* the registry and every contribute, withdraw and dissolve naming it      *)
(* fails (as an invalid fund index, once the value check has passed).      *)
(***************************************************************************)
\* The funds a log reports as dissolved.
Dissolved(log) ==
    {log[k].index : k \in {j \in 1 .. Len(log) : log[j].name = "Dissolved"}}

C16_DissolvedIsTerminal ==
    [][/\ Succeeded("dissolve") =>
             /\ last'.index \notin DOMAIN Funds'
             /\ \A w \in Users : contribution_get(child', last'.index, w) = 0
       /\ \A i \in Dissolved(events) :
             /\ i \notin DOMAIN Funds'
             /\ (last'.op \in {"contribute", "withdraw", "dissolve"}
                    /\ last'.index = i) =>
                    /\ last'.result # "ok"
                    /\ (last'.op = "contribute" => large_enough(last'.value)) =>
                           last'.result = "invalid fund index"]_vars

(***************************************************************************)
(* C17: every successful call appends exactly one event to the log, and    *)
(* nothing else does: Created(index, now), Contributed(who, index, new     *)
(* balance of who, now), Withdrew(who, index, amount withdrawn, now),      *)
(* Dissolved(index, now, reporter).                                        *)
(***************************************************************************)
\* The event the successful call of this step owes, read off the states
\* before and after it.
EventOwed ==
    LET i == last'.index
        w == last'.who
    IN  CASE last'.op = "create" ->
                 [name |-> "Created", index |-> FundCount, now |-> now]
          [] last'.op = "contribute" ->
                 [name |-> "Contributed", who |-> w, index |-> i,
                  balance |-> contribution_get(child', i, w), now |-> now]
          [] last'.op = "withdraw" ->
                 [name |-> "Withdrew", who |-> w, index |-> i,
                  balance |-> balances[fund_account_id(i)]
                                  - balances'[fund_account_id(i)],
                  now |-> now]
          [] OTHER ->
                 [name |-> "Dissolved", index |-> i, now |-> now, reporter |-> w]

C17_OneEventPerSuccess ==
    [][IF last'.op # "none" /\ last'.result = "ok"
       THEN events' = Append(events, EventOwed)
       ELSE events' = events]_vars

\* A withdraw has succeeded and the log ends with its Withdrew event.
C17_Witness ==
    /\ last.op = "withdraw"
    /\ last.result = "ok"
    /\ Len(events) > 2
    /\ events[Len(events)].name = "Withdrew"

(***************************************************************************)
(* C18: a contribute, withdraw or dissolve naming fund A leaves the        *)
(* record, the contribution entries and the account balance of every       *)
(* other fund as they were, and a create leaves those of every existing    *)
(* fund as they were.                                                      *)
(***************************************************************************)
\* The step changes nothing of fund b.
Untouched(b) ==
    /\ b \in DOMAIN Funds'
    /\ Funds'[b] = Funds[b]
    /\ child'[id_from_index(b)] = child[id_from_index(b)]
    /\ balances'[fund_account_id(b)] = balances[fund_account_id(b)]

C18_FundsAreIsolated ==
    [][/\ last'.op \in {"contribute", "withdraw", "dissolve"} =>
             \A b \in DOMAIN Funds \ {last'.index} : Untouched(b)
       /\ last'.op = "create" => \A b \in DOMAIN Funds : Untouched(b)]_vars

(***************************************************************************)
(* C19: the sum of the balances of all accounts, of users and of funds,    *)
(* is the same in every state.                                             *)
(***************************************************************************)
RECURSIVE SumOver(_, _)
\* The sum of the balances bal of the accounts in S.
SumOver(bal, S) ==
    IF S = {} THEN 0
    ELSE LET a == CHOOSE x \in S : TRUE
         IN  bal[a] + SumOver(bal, S \ {a})

C19_ValueIsConserved ==
    SumOver(balances, Accounts) = NumUsers * InitialBalance

(***************************************************************************)
(* C20: the account of every fund in the registry holds at least the sum   *)
(* of the fund's contribution entries, and a withdraw after `end` by an    *)
(* account with a nonzero entry in such a fund succeeds.                   *)
(***************************************************************************)
C20_ContributorsAreSolvent ==
    [][/\ \A i \in DOMAIN Funds' :
             balances'[fund_account_id(i)] >= TrieSum(child'[id_from_index(i)])
       /\ (/\ last'.op = "withdraw"
           /\ last'.index \in DOMAIN Funds
           /\ now > Funds[last'.index].end
           /\ contribution_get(child, last'.index, last'.who) > 0) =>
              last'.result = "ok"]_vars

\* A contributor has withdrawn while another contributor's entry is still in
\* the fund.
C20_Witness ==
    /\ last.op = "withdraw"
    /\ last.result = "ok"
    /\ last.index \in DOMAIN Funds
    /\ \E w \in Users \ {last.who} : contribution_get(child, last.index, w) > 0

(***************************************************************************)
(* The offchain-demo pallet (pallets/offchain-demo/src/lib.rs), on-chain   *)
(* part: the calls submit_number_signed and submit_number_unsigned, which  *)
(* both end in append_or_replace_number.  u64 is 0 .. NumberMod-1 here.    *)
(***************************************************************************)
NUM_VEC_LEN == 10
NumberMod == 64
MaxSubmissions == 12

\* The accounts of the local keystore, which sign the worker's submissions.
Keystore == {<<"user", 1>>}

\* Option<T::AccountId>
Some(who) == <<"Some", who>>
None == <<"None">>

NumbersStorage == [Numbers |-> Numbers, events |-> events]

RECURSIVE Total(_)
\* The sum of a vector, in the integers.
Total(numbers) ==
    IF numbers = <<>> THEN 0 ELSE Head(numbers) + Total(Tail(numbers))

\* numbers.iter().fold(0, |acc, num| acc + num) leaves u64.
fold_overflows(numbers) == Total(numbers) > NumberMod - 1

\* numbers.iter().fold(0, |acc, num| acc + num) / (num_len as u64) in a build
\* without overflow checks; the value is only written to the debug log.
average(numbers, num_len) ==
    IF num_len = 0 THEN 0 ELSE (Total(numbers) % NumberMod) \div num_len

\* A variant of vector_has_room that also pushes onto a full vector.
vector_has_room_or_full(num_len) == num_len <= NUM_VEC_LEN

\* if num_len < NUM_VEC_LEN
vector_has_room(num_len) == num_len < NUM_VEC_LEN

\* The slot written into a full vector: numbers[num_len % NUM_VEC_LEN], as a
\* position of a sequence (which counts from 1).
replaced_slot(num_len) == (num_len % NUM_VEC_LEN) + 1

\* With overflow checks the fold panics inside Numbers::mutate and the
\* extrinsic is lost; without them the average wraps and is logged.
append_or_replace_number(s, who, number, overflow_checks) ==
    LET num_len == Len(s.Numbers)
        numbers == IF vector_has_room(num_len)
                   THEN Append(s.Numbers, number)
                   ELSE [s.Numbers EXCEPT ![replaced_slot(num_len)] = number]
    IN  IF num_len # 0 /\ overflow_checks /\ fold_overflows(numbers)
        THEN Panic(s)
        ELSE Ok(deposit_event([s EXCEPT !.Numbers = numbers],
                              [name |-> "NewNumber", who |-> who,
                               number |-> number]))

submit_number_signed(s, who, number, overflow_checks) ==
    append_or_replace_number(s, Some(who), number, overflow_checks)

submit_number_unsigned(s, block, number, overflow_checks) ==
    append_or_replace_number(s, None, number, overflow_checks)

\* Applies the outcome of a call of offchain-demo.
ApplyNumbers(call, out) ==
    LET s == IF out.result = "panic" THEN NumbersStorage ELSE out.s
    IN  /\ Numbers' = s.Numbers
        /\ events' = s.events
        /\ last' = [call EXCEPT !.result = out.result]
        /\ UNCHANGED <<now, FundCount, Funds, child, balances, Sum, calls>>

\* The submissions are numbered: like the worker, which submits the current
\* block number, every submission carries a number of its own.
NextNumber == Len(events) + 1

SubmitNumberSigned(who, number, overflow_checks) ==
    /\ Len(events) < MaxSubmissions
    /\ ApplyNumbers(Call("submit_number_signed", who, 0, number, 0, 0),
                    submit_number_signed(NumbersStorage, who, number,
                                         overflow_checks))

SubmitNumberUnsigned(number, overflow_checks) ==
    /\ Len(events) < MaxSubmissions
    /\ ApplyNumbers(Call("submit_number_unsigned", <<"user", 0>>, 0, number,
                         0, 0),
                    submit_number_unsigned(NumbersStorage, now, number,
                                           overflow_checks))

NextNumbers ==
    \/ \E who \in Keystore, oc \in BOOLEAN :
           SubmitNumberSigned(who, NextNumber, oc)
    \/ \E oc \in BOOLEAN : SubmitNumberUnsigned(NextNumber, oc)

SpecNumbers == Init /\ [][NextNumbers]_vars

\* The numbers of the accepted submissions, oldest first.
Submitted == [k \in 1 .. Len(events) |-> events[k].number]

(***************************************************************************)
(* C21: after any sequence of submit_number_signed and                     *)
(* submit_number_unsigned calls the stored Numbers vector has at most      *)
(* NUM_VEC_LEN elements.                                                   *)
(***************************************************************************)
C21_NumbersIsBounded == Len(Numbers) <= NUM_VEC_LEN

\* A submission has been accepted into a full vector.
C21_Witness ==
    /\ Len(Numbers) = NUM_VEC_LEN
    /\ Len(events) > NUM_VEC_LEN
    /\ last.result = "ok"

(***************************************************************************)
(* C22: after n accepted submissions Numbers contains exactly the last     *)
(* min(n, NUM_VEC_LEN) submitted values: once it is full, each submission  *)
(* replaces the oldest stored value.                                       *)
(***************************************************************************)
\* The number of occurrences of v in a sequence.
Count(seq, v) == Cardinality({k \in 1 .. Len(seq) : seq[k] = v})

\* The last n elements of a sequence.
LastOf(seq, n) == SubSeq(seq, Len(seq) - n + 1, Len(seq))

C22_HoldsLastSubmissions ==
    LET n == Len(Submitted)
        m == IF n < NUM_VEC_LEN THEN n ELSE NUM_VEC_LEN
    IN  /\ Len(Numbers) = m
        /\ \A v \in 0 .. (NumberMod - 1) :
               Count(Numbers, v) = Count(LastOf(Submitted, m), v)

(***************************************************************************)
(* The adding machine (pallets/adding-machine): the stored Sum and the     *)
(* calls add and reset.  u32 is 0 .. SumMod-1 here.  add rejects a value   *)
(* that takes the sum past the largest u32, and the value thirteen.        *)
(***************************************************************************)
UnluckyNumber == 13
SumMod == 16
MaxCalls == 5

\* u32::max_value()
MaxSum == SumMod - 1

\* The values the calls add.
AddValues == {1, 5, UnluckyNumber, MaxSum}

AddingStorage == [Sum |-> Sum]

\* A variant of checked_add_fails that lets every addition through.
checked_add_passes(a, b) == FALSE

\* checked_add(a, b) is None: the sum does not fit in a u32.
checked_add_fails(a, b) == a + b > MaxSum

add(s, val_to_add) ==
    IF checked_add_fails(s.Sum, val_to_add)
    THEN Err(s, "SumTooLarge")
    ELSE IF val_to_add = UnluckyNumber
    THEN Err(s, "UnluckyThirteen")
    ELSE Ok([s EXCEPT !.Sum = s.Sum + val_to_add])

\* A variant of reset that leaves the sum as it is.
reset_kept(s) == Ok(s)

reset(s) == Ok([s EXCEPT !.Sum = 0])

\* Applies the outcome of a call of the adding machine and records the call.
ApplyAdding(call, out) ==
    /\ Sum' = out.s.Sum
    /\ last' = [call EXCEPT !.result = out.result]
    /\ calls' = Append(calls, [op |-> call.op, value |-> call.value,
                               result |-> out.result])
    /\ UNCHANGED <<now, FundCount, Funds, child, balances, events, Numbers>>

Add(who, val_to_add) ==
    /\ Len(calls) < MaxCalls
    /\ ApplyAdding(Call("add", who, 0, val_to_add, 0, 0),
                   add(AddingStorage, val_to_add))

Reset(who) ==
    /\ Len(calls) < MaxCalls
    /\ ApplyAdding(Call("reset", who, 0, 0, 0, 0), reset(AddingStorage))

NextAdding ==
    \/ \E who \in Users, v \in AddValues : Add(who, v)
    \/ \E who \in Users : Reset(who)

SpecAdding == Init /\ [][NextAdding]_vars

\* The step is an add whose value takes the sum past the largest u32.
AddPastMax == last'.op = "add" /\ Sum + last'.value > MaxSum

RECURSIVE AddedSinceReset(_)
\* The total of the successful adds of a log after its last reset.
AddedSinceReset(log) ==
    IF log = <<>> THEN 0
    ELSE LET c == log[Len(log)]
             before == SubSeq(log, 1, Len(log) - 1)
         IN  IF c.op = "reset" /\ c.result = "ok" THEN 0
             ELSE IF c.op = "add" /\ c.result = "ok"
             THEN c.value + AddedSinceReset(before)
             ELSE AddedSinceReset(before)

C24_SumIsTotalOfAdds == Sum = AddedSinceReset(calls)

\* A reset, then a successful add, and an add of thirteen that failed.
C24_Witness ==
    /\ Sum > 0
    /\ \E i, j \in 1 .. Len(calls) :
           /\ i < j
           /\ calls[i].op = "reset"
           /\ calls[j].op = "add" /\ calls[j].result = "ok"
    /\ \E k \in 1 .. Len(calls) :
           calls[k].op = "add" /\ calls[k].result = "UnluckyThirteen"

====
